---------------------------- MODULE Spec2Model ----------------------------
(***************************************************************************)
(* chpr-worker: the per-delivery consumption pipeline of createWorkers     *)
(* (src/lib/createWorkers.js, lines 609-855): parse, validate, handle      *)
(* under a timeout, then ack or nack by the broker's redelivered flag.     *)
(*                                                                         *)
(* The worker is one JavaScript event loop.  One action is one macrotask:  *)
(* a delivery (the consumer closure up to its first pending yield), the    *)
(* settlement of a pending handler, or the firing of a timeout timer,      *)
(* each together with the promise continuations it triggers.               *)
(*                                                                         *)
(* In Spec the caller calls listen() on a worker that is not listening     *)
(* and does not call close(): the pipeline of one channel is observed.     *)
(* SpecRouting is the binding of several handlers to the queue and the     *)
(* broker's dispatch to their closures; SpecWait is wait() and the         *)
(* broadcast of events to waiters; SpecLifecycle is listen(), close(),     *)
(* the connection and channel signals and the exit timer, with the         *)
(* caller's calls made one after the other; SpecCreate is the creation of  *)
(* several workers in one process, by createWorkers and by the legacy      *)
(* createWorker; SpecLive is Spec with timers that fire.  Each             *)
(* specification moves its own variables and leaves the others at their    *)
(* initial values.                                                         *)
(***************************************************************************)
EXTENDS Naturals, Sequences, FiniteSets

(* ------------------------------ bounds -------------------------------- *)

\* Messages the publisher may publish.
MaxMsgs == 2
\* Deliveries the broker makes in one run (caps the count of deliveries).
MaxDeliveries == 3
\* The channelPrefetch option the worker is created with.
channelPrefetch == 2
\* wait() calls made in one run.
MaxWaiters == 3
\* Events emitted in one run of the waiters' specification.
MaxEmits == 3
\* HandlerSpecs the worker is created with.
MaxHandlers == 2
\* Workers created in one process.
MaxWorkers == 2
\* listen() and close() calls made in one run of the lifecycle.
MaxCalls == 4
\* _consumeMessage calls in one run of a worker that is listened and closed.
MaxInvocations == 2
\* listen() calls made on that worker.
MaxListens == 2

Msgs == 1..MaxMsgs

\* Messages published to the queue the handlers share: one more than the
\* prefetch count.
RoutedMsgs == 1..(channelPrefetch + 1)

(* --------------------------- program constants ------------------------ *)

TASK_COMPLETED == "task.completed"
TASK_RETRIED == "task.retried"
TASK_FAILED == "task.failed"

\* The names of the terminal events.
EventNames == {TASK_COMPLETED, TASK_RETRIED, TASK_FAILED}

\* What a published buffer can hold: bytes that are not JSON ("bad"), JSON
\* of a falsy value such as null, false, 0 or "" ("falsy"), JSON of an
\* object ("obj").
Payloads == {"bad", "falsy", "obj"}

\* What validate(content) may do with a content: return undefined (_.noop),
\* return a value (the content itself with _.identity, or a converted
\* one), return an Error value, throw an Error, throw a value that is not
\* an Error.
ValidatorBehaviours ==
  {"returnsUndefined", "returnsValue", "returnsError", "throwsError", "throwsOther"}

\* What handle(content, fields) may do when called: throw synchronously,
\* or return a value or a yieldable (a promise, a generator), which co
\* resolves or rejects in a later turn of the event loop, or never.
HandlerBehaviours == {"throws", "pending"}

VARIABLES
  workerConnection,  \* 0 (undefined) or the handle of the connection
  workerChannel,     \* 0 (undefined) or the handle of the channel
  listenCalled,      \* whether listen() has been called
  errorLogs,         \* logger.error entries written by listen()
  queue,             \* broker: per message, its state in the queue
  payload,           \* broker: per message, the published buffer
  validate,          \* per message, what validate does with its content
  deliveries,        \* per message, one record per delivery of it, in order
  calls,             \* per message, the channel.ack / channel.nack calls
  events,            \* per message, the terminal events emitted for it
  waiters,           \* the wait() calls made, in order, one record each
  emitCount,         \* per event name, how often it has been emitted
  bindings,          \* broker: the routing keys bound to the worker's queue
  consumers,         \* broker: the handlers whose closure consumes the queue
  routed,            \* per message, its routing key and what became of it
  prefetchScope,     \* broker: what the prefetch count of the channel limits
  setup,             \* the steps listen() has completed before it binds handlers
  connections,       \* the connections opened, in order: "open" or "closed"
  channels,          \* the channels created, in order, one record each
  closeIssued,       \* the close calls made on channels and connections
  exitTimers,        \* the process.exit timers that are armed
  exited,            \* whether process.exit has run
  connectCalls,      \* the amqplib.connect calls made, with the caller
  lastCall,          \* the last listen() or close() call and its result
  lastSignal,        \* the last signal of a connection and the log written
  workers,           \* the workers created in the process, in order
  lastCreation,      \* the last createWorker(s) call and whether it threw
  listenCount,       \* the listen() calls made on the workers of `workers`
  inbox,             \* broker: the queue of a worker that is listened and closed
  invocations        \* the _consumeMessage calls of that worker, in arrival order

workerVars == <<workerConnection, workerChannel, listenCalled, errorLogs>>

pipelineVars == <<queue, payload, validate, deliveries, calls, events>>

waitVars == <<waiters, emitCount>>

routingVars == <<bindings, consumers, routed, prefetchScope, setup>>

lifecycleVars ==
  <<connections, channels, closeIssued, exitTimers, exited, connectCalls, lastCall,
    lastSignal>>

creationVars == <<workers, lastCreation, listenCount>>

sessionVars == <<inbox, invocations>>

vars ==
  <<workerVars, pipelineVars, waitVars, routingVars, lifecycleVars, creationVars,
    sessionVars>>

(* ------------------------- pure parts of the code --------------------- *)

\* JSON.parse(contentString): throws on "bad", otherwise the parsed value.
JSONparse(p) ==
  IF p = "bad" THEN [threw |-> TRUE, value |-> "null"]
  ELSE [threw |-> FALSE, value |-> p]

\* JavaScript truthiness of the values the pipeline tests.
Truthy(v) == v \notin {"null", "undefined", "falsy"}

\* A _parseMessage whose catch hands the raw string on instead of null.
_parseMessageReturnsRaw(p) ==
  IF JSONparse(p).threw THEN [value |-> p, log |-> <<"warn">>]
  ELSE [value |-> JSONparse(p).value, log |-> <<>>]

\* _parseMessage: the parsed content, or null with one warning when
\* JSON.parse throws.
_parseMessage(p) ==
  IF JSONparse(p).threw THEN [value |-> "null", log |-> <<"warn">>]
  ELSE [value |-> JSONparse(p).value, log |-> <<>>]

\* The validation step of the earlier consumer (lines 172-183): its catch
\* logs the warning and throws the error again.
_validateMessageRethrows(vb, content) ==
  CASE vb = "returnsUndefined" -> [value |-> "undefined", log |-> <<>>, throws |-> FALSE]
    [] vb = "returnsValue" -> [value |-> "validated", log |-> <<>>, throws |-> FALSE]
    [] vb = "returnsError" -> [value |-> "Error", log |-> <<>>, throws |-> FALSE]
    [] vb = "throwsError" -> [value |-> "Error", log |-> <<"warn">>, throws |-> TRUE]
    [] vb = "throwsOther" -> [value |-> "thrown", log |-> <<"warn">>, throws |-> TRUE]

\* _validateMessage: what validate returned, or, when it throws, one
\* warning and the thrown value, returned and not thrown again.
_validateMessage(vb, content) ==
  CASE vb = "returnsUndefined" -> [value |-> "undefined", log |-> <<>>, throws |-> FALSE]
    [] vb = "returnsValue" -> [value |-> "validated", log |-> <<>>, throws |-> FALSE]
    [] vb = "returnsError" -> [value |-> "Error", log |-> <<>>, throws |-> FALSE]
    [] vb = "throwsError" -> [value |-> "Error", log |-> <<"warn">>, throws |-> FALSE]
    [] vb = "throwsOther" -> [value |-> "thrown", log |-> <<"warn">>, throws |-> FALSE]

\* A consumer that hands validate the broker message (the validator call
\* of src/unnamed/part_004, lines 99-110) and not the parsed content.
ValidatorArgumentRaw(message, content) == message

\* What _consumeMessage passes to _validateMessage, and that to validate:
\* the parsed content.
ValidatorArgument(message, content) == content

\* _.isError(value)
isError(v) == v = "Error"

\* validatedContent || content
HandlerArgument(validated, content) ==
  IF Truthy(validated) THEN validated ELSE content

\* A _handleMessage whose try block falls through without `return true`.
_handleMessageNoReturn(outcome, redelivered) ==
  IF outcome = "ok"
  THEN [log |-> <<>>, success |-> FALSE, branch |-> "handled"]
  ELSE IF ~redelivered
  THEN [log |-> <<"warn">>, success |-> FALSE, branch |-> "retry"]
  ELSE [log |-> <<"error">>, success |-> TRUE, branch |-> "discard"]

\* A _handleMessage whose catch gives up at once, whatever fields.redelivered.
_handleMessageNoRetry(outcome, redelivered) ==
  IF outcome = "ok"
  THEN [log |-> <<>>, success |-> TRUE, branch |-> "handled"]
  ELSE [log |-> <<"error">>, success |-> TRUE, branch |-> "discard"]

\* The catch of the earlier consumer (lines 185-198): it nacks on every
\* failure, whatever fields.redelivered.
_handleMessageAlwaysNack(outcome, redelivered) ==
  IF outcome = "ok"
  THEN [log |-> <<>>, success |-> TRUE, branch |-> "handled"]
  ELSE [log |-> <<"warn">>, success |-> FALSE, branch |-> "retry"]

\* A _handleMessage whose catch keeps the retry state in the worker: it
\* retries while the worker has not nacked anything yet, whatever
\* fields.redelivered.
_handleMessageCounting(outcome, redelivered) ==
  IF outcome = "ok"
  THEN [log |-> <<>>, success |-> TRUE, branch |-> "handled"]
  ELSE IF \A m \in Msgs : \A k \in 1..Len(calls[m]) : calls[m][k].op # "nack"
  THEN [log |-> <<"warn">>, success |-> FALSE, branch |-> "retry"]
  ELSE [log |-> <<"error">>, success |-> TRUE, branch |-> "discard"]

\* _handleMessage, after the guarded handler promise settled ("ok") or the
\* handler threw or the promise rejected ("err"): whether the consumer is
\* to ack, what is logged, and the branch taken.
_handleMessage(outcome, redelivered) ==
  IF outcome = "ok"
  THEN [log |-> <<>>, success |-> TRUE, branch |-> "handled"]
  ELSE IF ~redelivered
  THEN [log |-> <<"warn">>, success |-> FALSE, branch |-> "retry"]
  ELSE [log |-> <<"error">>, success |-> TRUE, branch |-> "discard"]

\* An end of _consumeMessage that tests handleSuccess the wrong way round.
AckOrNackInverted(handleSuccess) == IF handleSuccess THEN "nack" ELSE "ack"

\* The end of _consumeMessage: nack when _handleMessage returned false.
AckOrNack(handleSuccess) == IF ~handleSuccess THEN "nack" ELSE "ack"

\* A guard whose timer resolves the promise instead of rejecting it.
_promisifyTimeoutResolves(promise, ev) ==
  IF promise # "pending" THEN promise
  ELSE IF ev \in {"resolve", "timeout"} THEN "resolved"
  ELSE "rejected"

\* A guard whose promise can be settled again by a later resolve or reject.
_promisifyResettable(promise, ev) ==
  IF ev = "resolve" THEN "resolved" ELSE "rejected"

\* A guard without the setTimeout line: only the yieldable settles it.
_promisifyWithoutTimeout(promise, ev) ==
  IF promise # "pending" \/ ev = "timeout" THEN promise
  ELSE IF ev = "resolve" THEN "resolved"
  ELSE "rejected"

\* _promisifyWithTimeout: the state of the promise it returns after the
\* yieldable resolves, the yieldable rejects or the timer fires.  resolve
\* and reject of a settled promise do nothing.
_promisifyWithTimeout(promise, ev) ==
  IF promise # "pending" THEN promise
  ELSE IF ev = "resolve" THEN "resolved"
  ELSE "rejected"

\* The event a terminal transition of the pipeline broadcasts.
TerminalEvent(branch) ==
  CASE branch = "handled" -> TASK_COMPLETED
    [] branch = "retry" -> TASK_RETRIED
    [] branch \in {"discard", "parse_discard", "validation_discard"} -> TASK_FAILED

(* ------------------------------- state -------------------------------- *)

\* The deliveries made so far: message m, its i-th delivery.
Deliveries == {<<m, i>> \in Msgs \X (1..MaxDeliveries) : i <= Len(deliveries[m])}

Unacked == {m \in Msgs : queue[m].st = "unacked"}

\* The channel the consumer closure acknowledges on.
_getChannel == workerChannel

Init ==
  /\ workerConnection = 0
  /\ workerChannel = 0
  /\ listenCalled = FALSE
  /\ errorLogs = 0
  /\ queue = [m \in Msgs |-> [redelivered |-> FALSE, st |-> "unpublished", tag |-> 0]]
  /\ payload = [m \in Msgs |-> "obj"]
  /\ validate = [m \in Msgs |-> "returnsUndefined"]
  /\ deliveries = [m \in Msgs |-> <<>>]
  /\ calls = [m \in Msgs |-> <<>>]
  /\ events = [m \in Msgs |-> <<>>]
  /\ waiters = <<>>
  /\ emitCount = [e \in EventNames |-> 0]
  /\ bindings = {}
  /\ consumers = {}
  /\ routed = [m \in RoutedMsgs |-> [st |-> "unpublished", key |-> "none", by |-> 0]]
  /\ prefetchScope = "none"
  /\ setup = <<>>
  /\ connections = <<>>
  /\ channels = <<>>
  /\ closeIssued = <<>>
  /\ exitTimers = 0
  /\ exited = FALSE
  /\ connectCalls = <<>>
  /\ lastCall = [op |-> "none",
                 n |-> 0,
                 forceExit |-> FALSE,
                 result |-> "none",
                 chanClose |-> "none",
                 connClose |-> "none",
                 exitScheduled |-> FALSE]
  /\ lastSignal = [n |-> 0, sig |-> "none", flag |-> FALSE, level |-> "none"]
  /\ workers = <<>>
  /\ lastCreation = [threw |-> FALSE,
                     n |-> 0,
                     form |-> "none",
                     bad |-> "none",
                     how |-> "none"]
  /\ listenCount = 0
  /\ inbox = [m \in Msgs |-> [redelivered |-> FALSE, st |-> "ready", tag |-> 0, on |-> 0]]
  /\ invocations = <<>>

(* ------------------------------- broker ------------------------------- *)

\* channel.ack(message): the delivery is settled and the message removed.
BrokerAck(q, m, tag) ==
  IF q[m].st = "unacked" /\ q[m].tag = tag
  THEN [q EXCEPT ![m] = [redelivered |-> @.redelivered, st |-> "gone", tag |-> 0]]
  ELSE q

\* channel.nack(message): allUpTo is false and requeue defaults to true, so
\* the message goes back to the queue and its next delivery is flagged
\* redelivered.
BrokerNack(q, m, tag) ==
  IF q[m].st = "unacked" /\ q[m].tag = tag
  THEN [q EXCEPT ![m] = [redelivered |-> TRUE, st |-> "ready", tag |-> 0]]
  ELSE q

\* channel.publish(exchangeName, routingKey, buffer) by a publisher.  The
\* validator is a function of the content: vb is what it does with the
\* content of this buffer, on every delivery of it.
Publish(m, p, vb) ==
  /\ queue[m].st = "unpublished"
  /\ \A k \in Msgs : k < m => queue[k].st # "unpublished"
  /\ p # "obj" => vb = "returnsUndefined"
  /\ payload' = [payload EXCEPT ![m] = p]
  /\ validate' = [validate EXCEPT ![m] = vb]
  /\ queue' = [queue EXCEPT ![m] = [redelivered |-> FALSE, st |-> "ready", tag |-> 0]]
  /\ UNCHANGED <<workerVars, deliveries, calls, events>>
  /\ UNCHANGED <<waitVars, routingVars, lifecycleVars, creationVars, sessionVars>>

(* ------------------------------- worker ------------------------------- *)

\* listen(): _connectAmqp, _createChannel, then bind and consume.  When
\* amqplib.connect fails, one error is logged and listen() rejects with
\* nothing assigned.
Listen(connectOk) ==
  /\ ~listenCalled
  /\ listenCalled' = TRUE
  /\ IF connectOk
     THEN /\ workerConnection' = 1
          /\ workerChannel' = 1
          /\ UNCHANGED errorLogs
     ELSE /\ errorLogs' = errorLogs + 1
          /\ UNCHANGED <<workerConnection, workerChannel>>
  /\ UNCHANGED <<queue, payload, validate, deliveries, calls, events>>
  /\ UNCHANGED <<waitVars, routingVars, lifecycleVars, creationVars, sessionVars>>

\* The terminal transition of the i-th delivery of m, whose record is rec:
\* the channel call, its effect at the broker, and the event broadcast
\* with it.
Finish(q, m, i, rec, op, branch) ==
  /\ deliveries' =
       [deliveries EXCEPT
          ![m] = [k \in 1..(IF i > Len(@) THEN i ELSE Len(@)) |->
                    IF k = i THEN [rec EXCEPT !.branch = branch, !.phase = "done"]
                    ELSE @[k]]]
  /\ calls' = [calls EXCEPT ![m] = Append(@, [op |-> op, tag |-> i, channel |-> rec.channel])]
  /\ events' = [events EXCEPT ![m] = Append(@, [tag |-> i, name |-> TerminalEvent(branch)])]
  /\ queue' = IF op = "ack" THEN BrokerAck(q, m, i) ELSE BrokerNack(q, m, i)

\* _handleMessage resumes after its yield (outcome "ok") or in its catch
\* ("err"); _consumeMessage then acks or nacks.
Resume(q, m, i, rec, outcome) ==
  LET r == _handleMessage(outcome, rec.redelivered)
  IN Finish(q, m, i, [rec EXCEPT !.logs = @ \o r.log], AckOrNack(r.success), r.branch)

\* The broker delivers message m and _consumeMessage runs up to its first
\* pending yield.  hb is what handle does on this call.  A step of the
\* closure that throws ends it there (phase "escaped"): the promise of
\* co.wrap rejects and no channel call is made for the delivery.
Deliver(m, hb) ==
  LET i == Len(deliveries[m]) + 1
      vb == validate[m]
      q1 == [queue EXCEPT ![m] = [redelivered |-> @.redelivered, st |-> "unacked", tag |-> i]]
      parsed == _parseMessage(payload[m])
      content == parsed.value
      validated == _validateMessage(vb, content)
      received ==
        [content |-> content,
         redelivered |-> queue[m].redelivered,
         branch |-> "none",
         promise |-> "none",
         phase |-> "handling",
         channel |-> _getChannel,
         logs |-> parsed.log,
         validator |-> "notCalled",
         arg |-> "none",
         invoked |-> <<>>,
         handler |-> "notInvoked",
         timer |-> "none",
         settledBy |-> "none"]
      checked ==
        [received EXCEPT
           !.validator = vb, !.logs = @ \o validated.log,
           !.invoked = Append(@, [arg |-> ValidatorArgument("message", content),
                                  fn |-> "validate"])]
      called ==
        [checked EXCEPT
           !.arg = HandlerArgument(validated.value, content),
           !.invoked = Append(@, [arg |-> HandlerArgument(validated.value, content),
                                  fn |-> "handle"])]
  IN /\ workerChannel # 0
     /\ queue[m].st = "ready"
     /\ Cardinality(Unacked) < channelPrefetch
     /\ Cardinality(Deliveries) < MaxDeliveries
     /\ UNCHANGED <<workerVars, payload, validate>>
     /\ UNCHANGED <<waitVars, routingVars, lifecycleVars, creationVars, sessionVars>>
     /\ IF ~Truthy(content)
        THEN Finish(q1, m, i, received, "ack", "parse_discard")
        ELSE IF validated.throws
        THEN /\ deliveries' =
                  [deliveries EXCEPT ![m] = Append(@, [checked EXCEPT !.phase = "escaped"])]
             /\ queue' = q1
             /\ UNCHANGED <<calls, events>>
        ELSE IF isError(validated.value)
        THEN Finish(q1, m, i, checked, "ack", "validation_discard")
        ELSE CASE hb = "throws" ->
                    Resume(q1, m, i,
                           [called EXCEPT !.handler = "threw", !.settledBy = "throw"],
                           "err")
               [] hb = "pending" ->
                    /\ deliveries' =
                         [deliveries EXCEPT
                            ![m] = Append(@, [called EXCEPT !.handler = "running",
                                                            !.promise = "pending",
                                                            !.timer = "armed"])]
                    /\ queue' = q1
                    /\ UNCHANGED <<calls, events>>

\* resolve or reject reaches the guarded promise of a delivery: when that
\* settles it, _handleMessage resumes; when it was settled already,
\* nothing more happens.
Settle(m, i, rec, ev) ==
  LET p == _promisifyWithTimeout(rec.promise, ev)
  IN IF p # rec.promise
     THEN Resume(queue, m, i, [rec EXCEPT !.promise = p, !.settledBy = ev],
                 IF p = "resolved" THEN "ok" ELSE "err")
     ELSE /\ deliveries' = [deliveries EXCEPT ![m][i] = rec]
          /\ UNCHANGED <<queue, calls, events>>

\* The pending yieldable of a delivery resolves or rejects.
HandlerSettle(m, i, ev) ==
  /\ <<m, i>> \in Deliveries
  /\ deliveries[m][i].handler = "running"
  /\ Settle(m, i,
            [deliveries[m][i] EXCEPT !.handler = "settled"], ev)
  /\ UNCHANGED <<workerVars, payload, validate>>
  /\ UNCHANGED <<waitVars, routingVars, lifecycleVars, creationVars, sessionVars>>

\* The setTimeout callback of a delivery's guard runs after taskTimeout.
TimerFire(m, i) ==
  /\ <<m, i>> \in Deliveries
  /\ deliveries[m][i].timer = "armed"
  /\ Settle(m, i, [deliveries[m][i] EXCEPT !.timer = "fired"], "timeout")
  /\ UNCHANGED <<workerVars, payload, validate>>
  /\ UNCHANGED <<waitVars, routingVars, lifecycleVars, creationVars, sessionVars>>

Next ==
  \/ \E ok \in BOOLEAN : Listen(ok)
  \/ \E m \in Msgs, p \in Payloads, vb \in ValidatorBehaviours : Publish(m, p, vb)
  \/ \E m \in Msgs, hb \in HandlerBehaviours : Deliver(m, hb)
  \/ \E m \in Msgs, i \in 1..MaxDeliveries, ev \in {"resolve", "reject"} : HandlerSettle(m, i, ev)
  \/ \E m \in Msgs, i \in 1..MaxDeliveries : TimerFire(m, i)

Spec == Init /\ [][Next]_vars

\* The pipeline with the event loop's guarantee that a timer that is due
\* runs its callback.  Nothing makes a handler's yieldable settle.
SpecLive ==
  /\ Spec
  /\ \A m \in Msgs : \A i \in 1..MaxDeliveries : WF_vars(TimerFire(m, i))

(* ---------------------------- observations ---------------------------- *)

\* The channel calls made for the i-th delivery of m, in order.
OpsOf(m, i) ==
  LET s == SelectSeq(calls[m], LAMBDA c : c.tag = i)
  IN [k \in 1..Len(s) |-> s[k].op]

\* The terminal events broadcast for the i-th delivery of m, in order.
EventsOf(m, i) ==
  LET s == SelectSeq(events[m], LAMBDA e : e.tag = i)
  IN [k \in 1..Len(s) |-> s[k].name]

\* The terminal events broadcast for message m, in order.
EventsOfMessage(m) == [k \in 1..Len(events[m]) |-> events[m][k].name]

\* The deliveries of m on which handle was called.
Invocations(m) == {i \in 1..Len(deliveries[m]) : deliveries[m][i].handler # "notInvoked"}

\* The channel.nack calls made for m.
Nacks(m) == {k \in 1..Len(calls[m]) : calls[m][k].op = "nack"}

\* How the guarded handler call of a delivery can fail: handle throws, its
\* yieldable rejects, or the timer rejects first.
Failures == {"throw", "reject", "timeout"}

\* handle failed on the i-th delivery of m.
FailedOn(m, i) == i <= Len(deliveries[m]) /\ deliveries[m][i].settledBy \in Failures

\* handle succeeded, before the timer fired, on the i-th delivery of m.
SucceededOn(m, i) == i <= Len(deliveries[m]) /\ deliveries[m][i].settledBy = "resolve"

\* After the i-th delivery of m the message is back in the queue flagged
\* redelivered, or has been delivered again with the flag set.
Requeued(m, i) ==
  IF Len(deliveries[m]) > i THEN deliveries[m][i + 1].redelivered
  ELSE queue[m].st = "ready" /\ queue[m].redelivered

\* Message m is the only message published.
OnlyMessage(m) == \A n \in Msgs \ {m} : queue[n].st = "unpublished"

(* ------------------------------- claims ------------------------------- *)

\* C1: every delivery of a message whose payload is not JSON is acked and
\* never nacked, TASK_FAILED is broadcast exactly once for it, and handle is
\* not called for it.
C1_MalformedPayloadDiscarded ==
  \A d \in Deliveries :
    payload[d[1]] = "bad" =>
      /\ OpsOf(d[1], d[2]) = <<"ack">>
      /\ EventsOf(d[1], d[2]) = <<TASK_FAILED>>
      /\ deliveries[d[1]][d[2]].handler = "notInvoked"

C1_Witness ==
  \E d \in Deliveries :
    /\ payload[d[1]] = "bad"
    /\ deliveries[d[1]][d[2]].phase = "done"
    /\ queue[d[1]].st = "gone"

\* C2: every delivery on which validate throws (an Error or any other
\* value) is acked without a call of handle, and TASK_FAILED is broadcast
\* for it, whether or not it is a redelivery.  The code violates this when
\* the thrown value is not an Error.
C2_ValidatorFailureDiscarded ==
  \A d \in Deliveries :
    deliveries[d[1]][d[2]].validator \in {"throwsError", "throwsOther"} =>
      /\ deliveries[d[1]][d[2]].handler = "notInvoked"
      /\ OpsOf(d[1], d[2]) = <<"ack">>
      /\ EventsOf(d[1], d[2]) = <<TASK_FAILED>>

\* C3: every delivery whose handler call resolves before the timer fires is
\* acked, and TASK_COMPLETED and no other event is broadcast for it, once.
C3_SuccessAckedAndCompleted ==
  \A d \in Deliveries :
    SucceededOn(d[1], d[2]) =>
      /\ OpsOf(d[1], d[2]) = <<"ack">>
      /\ EventsOf(d[1], d[2]) = <<TASK_COMPLETED>>

C3_Witness ==
  \E d \in Deliveries :
    /\ SucceededOn(d[1], d[2])
    /\ deliveries[d[1]][d[2]].phase = "done"
    /\ deliveries[d[1]][d[2]].timer = "armed"

\* C4: when handle fails (throws, rejects or times out) on a delivery whose
\* redelivered flag is false, the message is nacked and not acked, it is
\* back in the queue for a redelivery, and TASK_RETRIED is broadcast for the
\* delivery.
C4_FirstFailureRequeued ==
  \A d \in Deliveries :
    (FailedOn(d[1], d[2]) /\ ~deliveries[d[1]][d[2]].redelivered) =>
      /\ OpsOf(d[1], d[2]) = <<"nack">>
      /\ EventsOf(d[1], d[2]) = <<TASK_RETRIED>>
      /\ Requeued(d[1], d[2])

C4_Witness ==
  \E d \in Deliveries, e \in Deliveries :
    /\ ~deliveries[d[1]][d[2]].redelivered
    /\ deliveries[d[1]][d[2]].settledBy \in {"throw", "reject"}
    /\ ~deliveries[e[1]][e[2]].redelivered
    /\ deliveries[e[1]][e[2]].settledBy = "timeout"

\* C5: when handle fails (throws, rejects or times out) on a delivery whose
\* redelivered flag is true, the message is acked and gone from the queue,
\* it is not nacked for that delivery, and TASK_FAILED is broadcast for the
\* delivery.
C5_SecondFailureDiscarded ==
  \A d \in Deliveries :
    (FailedOn(d[1], d[2]) /\ deliveries[d[1]][d[2]].redelivered) =>
      /\ OpsOf(d[1], d[2]) = <<"ack">>
      /\ EventsOf(d[1], d[2]) = <<TASK_FAILED>>
      /\ queue[d[1]].st = "gone"

C5_Witness ==
  \E d \in Deliveries :
    /\ deliveries[d[1]][d[2]].redelivered
    /\ deliveries[d[1]][d[2]].settledBy \in {"throw", "reject"}
    /\ deliveries[d[1]][d[2]].phase = "done"

\* C6: a message whose handler fails on its first call and succeeds on its
\* second has the events TASK_RETRIED then TASK_COMPLETED, exactly two
\* calls of handle, and is gone from the queue.
C6_FailThenSucceed ==
  \A m \in Msgs :
    (FailedOn(m, 1) /\ SucceededOn(m, 2)) =>
      /\ EventsOfMessage(m) = <<TASK_RETRIED, TASK_COMPLETED>>
      /\ Cardinality(Invocations(m)) = 2
      /\ Len(deliveries[m]) = 2
      /\ queue[m].st = "gone"

C6_Witness ==
  \E m \in Msgs :
    /\ OnlyMessage(m)
    /\ FailedOn(m, 1)
    /\ SucceededOn(m, 2)

\* C7: a message whose handler fails on every call has the events
\* TASK_RETRIED then TASK_FAILED, exactly two calls of handle, an ack on its
\* second delivery, and is gone from the queue.
C7_AlwaysFails ==
  \A m \in Msgs :
    (FailedOn(m, 1) /\ FailedOn(m, 2)) =>
      /\ EventsOfMessage(m) = <<TASK_RETRIED, TASK_FAILED>>
      /\ Cardinality(Invocations(m)) = 2
      /\ Len(deliveries[m]) = 2
      /\ OpsOf(m, 2) = <<"ack">>
      /\ queue[m].st = "gone"

C7_Witness ==
  \E m \in Msgs :
    /\ OnlyMessage(m)
    /\ FailedOn(m, 1)
    /\ FailedOn(m, 2)

\* C8: whatever the handler does and however the deliveries of messages
\* interleave, every message is nacked at most once and handle is called
\* at most twice for it.
C8_RetriedAtMostOnce ==
  \A m \in Msgs :
    /\ Cardinality(Nacks(m)) <= 1
    /\ Cardinality(Invocations(m)) <= 2

C8_Witness ==
  \E m \in Msgs, n \in Msgs :
    /\ m # n
    /\ Cardinality(Nacks(m)) = 1
    /\ Cardinality(Invocations(m)) = 2
    /\ queue[m].st = "gone"
    /\ Len(deliveries[n]) >= 1

\* C9: a delivery whose timer fires before the handler call settles is
\* decided as one whose handler raised: nack and TASK_RETRIED when its
\* redelivered flag is false, ack and TASK_FAILED when it is true, with the
\* same channel call, event and logs as a delivery with the same flag whose
\* handler threw or rejected.
C9_TimeoutIsFailure ==
  \A d \in Deliveries :
    deliveries[d[1]][d[2]].settledBy = "timeout" =>
      /\ OpsOf(d[1], d[2]) =
           IF deliveries[d[1]][d[2]].redelivered THEN <<"ack">> ELSE <<"nack">>
      /\ EventsOf(d[1], d[2]) =
           IF deliveries[d[1]][d[2]].redelivered THEN <<TASK_FAILED>> ELSE <<TASK_RETRIED>>
      /\ \A e \in Deliveries :
           (/\ deliveries[e[1]][e[2]].settledBy \in {"throw", "reject"}
            /\ deliveries[e[1]][e[2]].redelivered = deliveries[d[1]][d[2]].redelivered
            /\ deliveries[e[1]][e[2]].validator = deliveries[d[1]][d[2]].validator) =>
             /\ OpsOf(e[1], e[2]) = OpsOf(d[1], d[2])
             /\ EventsOf(e[1], e[2]) = EventsOf(d[1], d[2])
             /\ deliveries[e[1]][e[2]].logs = deliveries[d[1]][d[2]].logs
             /\ deliveries[e[1]][e[2]].branch = deliveries[d[1]][d[2]].branch

C9_Witness ==
  \E m \in Msgs :
    /\ Len(deliveries[m]) = 2
    /\ deliveries[m][1].settledBy = "timeout"
    /\ deliveries[m][2].settledBy = "timeout"
    /\ deliveries[m][2].redelivered
    /\ deliveries[m][2].phase = "done"

\* C10: every delivery gets exactly one ack or nack, none before it is
\* decided and one from then on; once it is decided, no step (a handler
\* that settles after the timer fired, a timer that fires after the handler
\* settled) adds a channel call or an event for it or reopens it.
C10_OneDecisionPerDelivery ==
  [][/\ \A d \in Deliveries' :
          (Len(OpsOf(d[1], d[2])) =
             IF deliveries[d[1]][d[2]].phase = "done" THEN 1 ELSE 0)'
     /\ \A d \in Deliveries :
          deliveries[d[1]][d[2]].phase = "done" =>
            /\ OpsOf(d[1], d[2])' = OpsOf(d[1], d[2])
            /\ EventsOf(d[1], d[2])' = EventsOf(d[1], d[2])
            /\ deliveries'[d[1]][d[2]].phase = "done"
            /\ deliveries'[d[1]][d[2]].branch = deliveries[d[1]][d[2]].branch]_vars

C10_Witness ==
  \E d \in Deliveries, e \in Deliveries :
    /\ deliveries[d[1]][d[2]].settledBy = "timeout"
    /\ deliveries[d[1]][d[2]].handler = "settled"
    /\ Len(OpsOf(d[1], d[2])) = 1
    /\ deliveries[e[1]][e[2]].settledBy \in {"resolve", "reject"}
    /\ deliveries[e[1]][e[2]].timer = "fired"
    /\ Len(OpsOf(e[1], e[2])) = 1

\* C12: every delivery has exactly one terminal event once it is decided
\* and none before, the event is one of TASK_COMPLETED, TASK_RETRIED and
\* TASK_FAILED, it comes with the delivery's channel call, and it is
\* TASK_RETRIED exactly when the call is a nack and TASK_COMPLETED or
\* TASK_FAILED exactly when the call is an ack.
C12_OneTerminalEventWithDecision ==
  \A d \in Deliveries :
    LET ops == OpsOf(d[1], d[2])
        evs == EventsOf(d[1], d[2])
    IN /\ Len(evs) = IF deliveries[d[1]][d[2]].phase = "done" THEN 1 ELSE 0
       /\ Len(ops) = Len(evs)
       /\ deliveries[d[1]][d[2]].phase = "done" =>
            /\ evs[1] \in {TASK_COMPLETED, TASK_RETRIED, TASK_FAILED}
            /\ evs[1] = TASK_RETRIED <=> ops[1] = "nack"
            /\ evs[1] \in {TASK_COMPLETED, TASK_FAILED} <=> ops[1] = "ack"

C12_Witness ==
  \E d \in Deliveries, e \in Deliveries, f \in Deliveries :
    /\ EventsOf(d[1], d[2]) = <<TASK_RETRIED>> /\ OpsOf(d[1], d[2]) = <<"nack">>
    /\ EventsOf(e[1], e[2]) = <<TASK_FAILED>> /\ OpsOf(e[1], e[2]) = <<"ack">>
    /\ EventsOf(f[1], f[2]) = <<TASK_COMPLETED>> /\ OpsOf(f[1], f[2]) = <<"ack">>

C26_DecisionFromDeliveryOnly ==
  \A d \in Deliveries, e \in Deliveries :
    LET a == deliveries[d[1]][d[2]]
        b == deliveries[e[1]][e[2]]
    IN (/\ a.phase = "done" /\ b.phase = "done"
        /\ payload[d[1]] = payload[e[1]]
        /\ a.validator = b.validator
        /\ a.settledBy = b.settledBy
        /\ a.redelivered = b.redelivered)
       => OpsOf(d[1], d[2]) = OpsOf(e[1], e[2])

C26_Witness ==
  \E d \in Deliveries, e \in Deliveries :
    /\ d[1] < e[1]
    /\ deliveries[d[1]][d[2]].phase = "done" /\ deliveries[e[1]][e[2]].phase = "done"
    /\ payload[d[1]] = payload[e[1]]
    /\ deliveries[d[1]][d[2]].validator = deliveries[e[1]][e[2]].validator
    /\ deliveries[d[1]][d[2]].settledBy = deliveries[e[1]][e[2]].settledBy
    /\ deliveries[d[1]][d[2]].settledBy \in Failures
    /\ ~deliveries[d[1]][d[2]].redelivered /\ ~deliveries[e[1]][e[2]].redelivered
    /\ Len(calls[d[1]]) = 1 /\ Len(calls[e[1]]) = 1
    /\ OpsOf(e[1], e[2]) = <<"nack">>

\* C28: validate is called once per delivery whose payload parsed, with the
\* parsed content, before handle; handle is then called with the value
\* validate returned when it returned one, and with the parsed content
\* otherwise.  The code violates this when validate throws a value that is
\* not an Error: handle is called with the thrown value.
C28_ValidatorThenHandler ==
  \A d \in Deliveries :
    LET rec == deliveries[d[1]][d[2]]
        validateCall == [arg |-> rec.content, fn |-> "validate"]
        handleCall ==
          [arg |-> IF rec.validator = "returnsValue"
                   THEN _validateMessage(rec.validator, rec.content).value
                   ELSE rec.content,
           fn |-> "handle"]
    IN /\ rec.validator # "notCalled" =>
            /\ Len(SelectSeq(rec.invoked, LAMBDA c : c.fn = "validate")) = 1
            /\ rec.invoked[1] = validateCall
       /\ rec.handler # "notInvoked" => rec.invoked = <<validateCall, handleCall>>

\* C30: every delivery eventually reaches its ack or nack, even when its
\* handler never settles.
C30_EveryDeliveryDecided ==
  \A m \in Msgs : \A i \in 1..MaxDeliveries :
    (<<m, i>> \in Deliveries) ~> (<<m, i>> \in Deliveries /\ Len(OpsOf(m, i)) = 1)

C30_Witness ==
  \E d \in Deliveries :
    /\ deliveries[d[1]][d[2]].handler = "running"
    /\ deliveries[d[1]][d[2]].timer = "fired"
    /\ Len(OpsOf(d[1], d[2])) = 1
    /\ queue[d[1]].st # "unacked"

\* The pipeline with timers that fire and a broker that delivers the
\* messages that are ready while the worker listens.
SpecRetry ==
  /\ SpecLive
  /\ \A m \in Msgs : WF_vars(\E hb \in HandlerBehaviours : Deliver(m, hb))

\* The deliveries of one run are used up before message m got its second
\* one.
BudgetSpentBefore(m) ==
  /\ Cardinality(Deliveries) = MaxDeliveries
  /\ Len(deliveries[m]) < 2
  /\ queue[m].st = "ready"

\* C31: no message is redelivered forever: whatever its handler does, a
\* message published to a worker that listens is eventually acked and gone
\* from the queue (within the deliveries of one run).
C31_EveryMessageLeavesQueue ==
  \A m \in Msgs :
    (queue[m].st # "unpublished" /\ workerChannel # 0)
      ~> (queue[m].st = "gone" \/ BudgetSpentBefore(m))

C31_Witness ==
  \E m \in Msgs, n \in Msgs :
    /\ m # n
    /\ queue[m].st = "gone" /\ queue[n].st = "gone"
    /\ Len(deliveries[m]) = 2
    /\ FailedOn(m, 1) /\ FailedOn(m, 2)
    /\ OpsOf(m, 2) = <<"ack">>
    /\ Len(deliveries[n]) = 1

\* C35: two handler invocations for the same message are never in progress
\* at the same time.  The code violates this: the timer nacks the delivery
\* while its handler is still running, and the redelivery calls the
\* handler again.
C35_OneInvocationInProgress ==
  \A m \in Msgs :
    Cardinality({i \in 1..Len(deliveries[m]) : deliveries[m][i].handler = "running"}) <= 1

\* C38: a delivery is discarded at the parse step only when its payload is
\* not JSON: every payload that parses, falsy values included, reaches
\* validate.  The code violates this: it acks every falsy content.
C38_ParsedPayloadValidated ==
  \A d \in Deliveries :
    payload[d[1]] # "bad" =>
      /\ deliveries[d[1]][d[2]].validator # "notCalled"
      /\ deliveries[d[1]][d[2]].branch # "parse_discard"

\* C39: every delivery acked without a call of handle has exactly one
\* warning in its log entries.  The code violates this for a validator that
\* returns an Error and for a payload that parses to a falsy value: both
\* are acked without any log entry.
C39_DiscardLogsOneWarning ==
  \A d \in Deliveries :
    LET rec == deliveries[d[1]][d[2]]
    IN (rec.phase = "done" /\ rec.handler = "notInvoked" /\ OpsOf(d[1], d[2]) = <<"ack">>)
       => Len(SelectSeq(rec.logs, LAMBDA l : l = "warn")) = 1

(* ------------------------------- wait() ------------------------------- *)

\* The events emitted so far, of any name.
Emitted == emitCount[TASK_COMPLETED] + emitCount[TASK_RETRIED] + emitCount[TASK_FAILED]

\* A wait(e, timeout) that is satisfied at once by an event that already
\* fired.
RegisterReplaying(e, counts) ==
  [timer |-> "armed",
   event |-> e,
   state |-> IF counts[e] > 0 THEN "resolved" ELSE "pending",
   registeredAt |-> counts[e],
   settledAt |-> counts[e]]

\* wait(e, timeout): a new waiter for e, registered at call time, with its
\* timeout timer armed.  registeredAt is the number of emissions of e that
\* precede the call.
Register(e, counts) ==
  [timer |-> "armed",
   event |-> e,
   state |-> "pending",
   registeredAt |-> counts[e],
   settledAt |-> counts[e]]

\* A broadcast that reaches only the first waiter pending on e.
BroadcastToFirst(ws, e, n) ==
  [k \in DOMAIN ws |->
     IF /\ ws[k].event = e
        /\ ws[k].state = "pending"
        /\ \A j \in DOMAIN ws : j < k => ~(ws[j].event = e /\ ws[j].state = "pending")
     THEN [ws[k] EXCEPT !.state = "resolved", !.settledAt = n]
     ELSE ws[k]]

\* A broadcast that also resolves the waiters on e that timed out.
BroadcastToExpired(ws, e, n) ==
  [k \in DOMAIN ws |->
     IF ws[k].event = e /\ ws[k].state # "resolved"
     THEN [ws[k] EXCEPT !.state = "resolved", !.settledAt = n]
     ELSE ws[k]]

\* The n-th emission of e is broadcast to the waiters ws: every waiter
\* pending on e resolves.
Broadcast(ws, e, n) ==
  [k \in DOMAIN ws |->
     IF ws[k].event = e /\ ws[k].state = "pending"
     THEN [ws[k] EXCEPT !.state = "resolved", !.settledAt = n]
     ELSE ws[k]]

\* The timeout timer of waiter w fires after n emissions of its event: a
\* pending waiter rejects with "event <name> didn't occur after <t>ms".
Expire(w, n) ==
  IF w.state = "pending"
  THEN [w EXCEPT !.state = "rejected", !.settledAt = n, !.timer = "fired"]
  ELSE [w EXCEPT !.timer = "fired"]

\* The caller calls worker.wait(e, timeout).
Wait(e) ==
  /\ Len(waiters) < MaxWaiters
  /\ waiters' = Append(waiters, Register(e, emitCount))
  /\ UNCHANGED <<emitCount, workerVars, pipelineVars, routingVars, lifecycleVars, creationVars, sessionVars>>

\* A terminal transition of the pipeline emits e.
Emit(e) ==
  /\ Emitted < MaxEmits
  /\ emitCount' = [emitCount EXCEPT ![e] = @ + 1]
  /\ waiters' = Broadcast(waiters, e, emitCount[e] + 1)
  /\ UNCHANGED <<workerVars, pipelineVars, routingVars, lifecycleVars, creationVars, sessionVars>>

\* The timeout of the k-th wait() call elapses.
WaitTimeout(k) ==
  /\ k \in DOMAIN waiters
  /\ waiters[k].timer = "armed"
  /\ waiters' = [waiters EXCEPT ![k] = Expire(@, emitCount[@.event])]
  /\ UNCHANGED <<emitCount, workerVars, pipelineVars, routingVars, lifecycleVars, creationVars, sessionVars>>

NextWait ==
  \/ \E e \in EventNames : Wait(e)
  \/ \E e \in EventNames : Emit(e)
  \/ \E k \in 1..MaxWaiters : WaitTimeout(k)

SpecWait == Init /\ [][NextWait]_vars

\* C13: a wait resolves on the first emission of its event after the call:
\* a resolved waiter was resolved by the emission that follows the ones
\* preceding its registration, a pending waiter has seen no emission of its
\* event since it registered, and no waiter is resolved by an emission that
\* preceded the call.
C13_WaitResolvesOnNextEmission ==
  \A k \in DOMAIN waiters :
    /\ waiters[k].state = "resolved" => waiters[k].settledAt = waiters[k].registeredAt + 1
    /\ waiters[k].state = "pending" => emitCount[waiters[k].event] = waiters[k].registeredAt
    /\ waiters[k].registeredAt <= emitCount[waiters[k].event]

C13_Witness ==
  \E k \in DOMAIN waiters :
    /\ waiters[k].registeredAt >= 1
    /\ waiters[k].state = "resolved"
    /\ waiters[k].settledAt = waiters[k].registeredAt + 1

\* C14: a wait whose timer fires while it is pending rejects, having seen no
\* emission of its event, and a rejected wait is never changed again: an
\* emission of its event after the expiry does not resolve it.
C14_TimedOutWaitStaysRejected ==
  [][\A k \in DOMAIN waiters :
       /\ (waiters[k].state = "pending" /\ waiters'[k].timer = "fired") =>
            /\ waiters'[k].state = "rejected"
            /\ waiters'[k].settledAt = waiters[k].registeredAt
       /\ waiters[k].state = "rejected" => waiters'[k] = waiters[k]]_vars

C14_Witness ==
  \E k \in DOMAIN waiters :
    /\ waiters[k].state = "rejected"
    /\ emitCount[waiters[k].event] > waiters[k].settledAt

\* C15: one emission of an event resolves every waiter pending on it, and a
\* waiter changes only when its own event is emitted or its own timer
\* fires: the resolution or the timeout of another waiter leaves it as it
\* was.
C15_WaitersIndependent ==
  [][\A k \in DOMAIN waiters :
       /\ (/\ waiters[k].state = "pending"
           /\ emitCount'[waiters[k].event] > emitCount[waiters[k].event]) =>
            waiters'[k].state = "resolved"
       /\ (/\ emitCount'[waiters[k].event] = emitCount[waiters[k].event]
           /\ waiters'[k].timer = waiters[k].timer) =>
            waiters'[k] = waiters[k]]_vars

C15_Witness ==
  \E a \in DOMAIN waiters, b \in DOMAIN waiters, c \in DOMAIN waiters :
    /\ a # b
    /\ waiters[a].event = waiters[b].event
    /\ waiters[c].event = waiters[a].event
    /\ waiters[a].state = "resolved"
    /\ waiters[b].state = "resolved"
    /\ waiters[a].settledAt = waiters[b].settledAt
    /\ waiters[c].state = "rejected"
    /\ waiters[c].settledAt < waiters[a].settledAt

(* ------------------------------ routing ------------------------------- *)

\* The HandlerSpecs of the worker, by position in configuration.handlers.
Handlers == 1..MaxHandlers

\* handler.routingKey: the handlers have distinct routing keys, here their
\* positions.
routingKey(h) == h

\* The routing keys a publisher may use: those of the handlers, and "other",
\* which no handler has.
RoutingKeys == {routingKey(h) : h \in Handlers} \cup {0}

\* The queue each _bindHandler call binds and consumes: configuration.queueName
\* for every handler.
queueName(h) == "queueName"

\* What the broker limits with the count of a basic.qos whose global flag
\* is not set, as channel.prefetch(channelPrefetch) sends it: the unacked
\* deliveries of the channel, or those of each consumer of the channel
\* (RabbitMQ since 3.3).
PrefetchScopes == {"channel", "consumer"}

\* A _listen that binds its handlers on a channel that has its prefetch
\* count set and nothing declared.
ListenStepsUndeclared == <<"connect", "createChannel", "prefetch">>

\* What _listen does, in order, before it binds the handlers: _connectAmqp,
\* then the yields of _createChannel.
ListenSteps == <<"connect", "createChannel", "prefetch", "assertExchange", "assertQueue">>

\* The step of _listen that is next, "bind" once the channel is set up.
NextListenStep ==
  IF Len(setup) < Len(ListenSteps) THEN ListenSteps[Len(setup) + 1] ELSE "bind"

\* amqplib.connect, connection.createChannel, channel.assertExchange or
\* channel.assertQueue, whichever is next.
SetUp ==
  /\ NextListenStep \notin {"prefetch", "bind"}
  /\ setup' = Append(setup, NextListenStep)
  /\ UNCHANGED <<bindings, consumers, routed, prefetchScope>>
  /\ UNCHANGED <<workerVars, pipelineVars, waitVars, lifecycleVars, creationVars, sessionVars>>

\* _createChannel: channel.prefetch(channelPrefetch), before any handler is
\* bound.
Prefetch(scope) ==
  /\ NextListenStep = "prefetch"
  /\ prefetchScope' = scope
  /\ setup' = Append(setup, "prefetch")
  /\ UNCHANGED <<bindings, consumers, routed, workerVars, pipelineVars, waitVars, lifecycleVars, creationVars, sessionVars>>

\* The messages delivered to the closure of handler h and not acked yet.
UnackedBy(h) == {m \in RoutedMsgs : routed[m].st = "unacked" /\ routed[m].by = h}

\* The messages delivered to the worker and not acked yet.
UnackedByWorker == {m \in RoutedMsgs : routed[m].st = "unacked"}

\* The broker may deliver one more message to the consumer of handler h.
WithinPrefetch(h) ==
  IF prefetchScope = "channel" THEN Cardinality(UnackedByWorker) < channelPrefetch
  ELSE Cardinality(UnackedBy(h)) < channelPrefetch

\* _bindHandler, first yield: workerChannel.bindQueue(queueName,
\* exchangeName, routingKey).
BindQueue(h) ==
  /\ h \in Handlers
  /\ NextListenStep = "bind"
  /\ routingKey(h) \notin bindings
  /\ bindings' = bindings \cup {routingKey(h)}
  /\ UNCHANGED <<consumers, routed, prefetchScope, setup>>
  /\ UNCHANGED <<workerVars, pipelineVars, waitVars, lifecycleVars, creationVars, sessionVars>>

\* _bindHandler, second yield: workerChannel.consume(queueName, closure of
\* this handler's handle and validate).
Consume(h) ==
  /\ h \in Handlers
  /\ routingKey(h) \in bindings
  /\ h \notin consumers
  /\ consumers' = consumers \cup {h}
  /\ UNCHANGED <<bindings, routed, prefetchScope, setup>>
  /\ UNCHANGED <<workerVars, pipelineVars, waitVars, lifecycleVars, creationVars, sessionVars>>

\* channel.publish(exchangeName, k, buffer): the topic exchange puts the
\* message in the queue when k is bound to it, and drops it otherwise.
PublishWithKey(m, k) ==
  /\ routed[m].st = "unpublished"
  /\ \A n \in RoutedMsgs : n < m => routed[n].st # "unpublished"
  /\ routed' = [routed EXCEPT ![m] =
                  [st |-> IF k \in bindings THEN "queued" ELSE "dropped", key |-> k, by |-> 0]]
  /\ UNCHANGED <<bindings, consumers, prefetchScope, setup>>
  /\ UNCHANGED <<workerVars, pipelineVars, waitVars, lifecycleVars, creationVars, sessionVars>>

\* The broker delivers a queued message to one of the consumers of its
\* queue, whichever is next in turn and within its prefetch limit; the
\* closure of that handler starts its validate and handle on it.
DeliverTo(m, h) ==
  /\ routed[m].st = "queued"
  /\ h \in consumers
  /\ queueName(h) = "queueName"
  /\ WithinPrefetch(h)
  /\ routed' = [routed EXCEPT ![m] = [st |-> "unacked", key |-> @.key, by |-> h]]
  /\ UNCHANGED <<bindings, consumers, prefetchScope, setup>>
  /\ UNCHANGED <<workerVars, pipelineVars, waitVars, lifecycleVars, creationVars, sessionVars>>

\* The closure that received m ends with channel.ack(message).
AckRouted(m) ==
  /\ routed[m].st = "unacked"
  /\ routed' = [routed EXCEPT ![m].st = "consumed"]
  /\ UNCHANGED <<bindings, consumers, prefetchScope, setup>>
  /\ UNCHANGED <<workerVars, pipelineVars, waitVars, lifecycleVars, creationVars, sessionVars>>

NextRouting ==
  \/ SetUp
  \/ \E scope \in PrefetchScopes : Prefetch(scope)
  \/ \E h \in Handlers : BindQueue(h)
  \/ \E h \in Handlers : Consume(h)
  \/ \E m \in RoutedMsgs, k \in RoutingKeys : PublishWithKey(m, k)
  \/ \E m \in RoutedMsgs, h \in Handlers : DeliverTo(m, h)
  \/ \E m \in RoutedMsgs : AckRouted(m)

SpecRouting == Init /\ [][NextRouting]_vars

\* C11: every message published with routing key K is processed only by the
\* closure of the handler whose routingKey is K.  The code violates this:
\* all closures consume the one queue, and none looks at the key.
C11_RoutedToOwnHandler ==
  \A m \in RoutedMsgs :
    routed[m].st = "consumed" => routingKey(routed[m].by) = routed[m].key

\* C34: listen() connects, creates the channel, sets the prefetch count,
\* declares the exchange and declares the queue, in this order, before it
\* binds any handler; a handler's consumer is registered after its routing
\* key is bound; so a message reaches a consumer only on a channel with
\* its prefetch count set and the exchange and the queue declared.
C34_ListenOrder ==
  LET order == <<"connect", "createChannel", "prefetch", "assertExchange", "assertQueue">>
  IN /\ Len(setup) <= Len(order)
     /\ \A k \in 1..Len(setup) : setup[k] = order[k]
     /\ (bindings # {} \/ consumers # {}) => setup = order
     /\ \A h \in consumers : routingKey(h) \in bindings
     /\ \A m \in RoutedMsgs :
          routed[m].st \in {"unacked", "consumed"} =>
            (setup = order /\ prefetchScope # "none" /\ routed[m].by \in consumers)

C34_Witness ==
  /\ consumers = Handlers
  /\ setup = ListenSteps
  /\ \E m \in RoutedMsgs : routed[m].st = "consumed"
  /\ \E m \in RoutedMsgs : routed[m].st = "unacked"

\* C24: at every moment the deliveries the worker has received and not yet
\* acked or nacked are at most channelPrefetch.  The code violates this with
\* several handlers on a broker that applies the count to each consumer.
C24_UnackedWithinPrefetch ==
  Cardinality(UnackedByWorker) <= channelPrefetch

(* ------------------------------ lifecycle ----------------------------- *)

\* A _connectAmqp whose catch rethrows without logging.
_connectAmqpSilent(connectOk) ==
  [throws |-> ~connectOk, connected |-> connectOk, errors |-> 0]

\* _connectAmqp: amqplib.connect succeeds and the connection is returned,
\* or it fails, one error is logged and the error is rethrown.
_connectAmqp(connectOk) ==
  [throws |-> ~connectOk, connected |-> connectOk, errors |-> IF connectOk THEN 0 ELSE 1]

\* The 'close' listener of the earlier _connectAmqp (lines 213-239), which
\* sets a timer that connects again.
_subscribeWithReconnect(sig, forceExit) ==
  [level |-> CASE sig = "close" -> "info" [] sig = "error" -> "error" [] sig = "blocked" -> "warn",
   errors |-> IF sig = "error" THEN 1 ELSE 0,
   reconnect |-> sig = "close",
   exit |-> FALSE]

\* _subscribeToConnectionEvents: the listeners of 'close', 'error' and
\* 'blocked' log (info, error and warn) and do nothing else; the 'close'
\* listener writes its argument forceExit into the log entry.
_subscribeToConnectionEvents(sig, forceExit) ==
  [level |-> CASE sig = "close" -> "info" [] sig = "error" -> "error" [] sig = "blocked" -> "warn",
   errors |-> IF sig = "error" THEN 1 ELSE 0,
   reconnect |-> FALSE,
   exit |-> FALSE]

\* _subscribeToChannelEvents: the listeners of 'error' and 'close' log.
_subscribeToChannelEvents(sig) ==
  [errors |-> IF sig = "error" THEN 1 ELSE 0]

\* The close of the earlier worker (lines 352-357), which sets the exit
\* timer whatever its argument.
ExitScheduledAlways(forceExit) == TRUE

\* if (forceExit) setTimeout(process.exit, configuration.processExitTimeout)
ExitScheduled(forceExit) == forceExit

\* The channels of connection c are closed with it.
ChannelsClosedWith(chs, c) ==
  [k \in DOMAIN chs |-> IF chs[k].conn = c THEN [chs[k] EXCEPT !.st = "closed"] ELSE chs[k]]

\* The yields of _listen and of what it calls, in order, and "none".
ListenFailures ==
  {"none", "connect", "createChannel", "prefetch", "assertExchange", "assertQueue",
   "bindQueue", "consume"}

\* The outcomes of the connect of a listen(): it succeeds or it fails.
ConnectOutcomes == {"none", "connect"}

\* The failing yield is one on the channel: the broker answers with a
\* channel exception, which closes the channel, and the channel emits
\* 'error' before 'close'.
OnChannel(failAt) ==
  failAt \in {"prefetch", "assertExchange", "assertQueue", "bindQueue", "consume"}

\* _listen gets as far as the assignment of workerChannel: _createChannel
\* returned.
ChannelAssigned(failAt) == failAt \in {"none", "bindQueue", "consume"}

\* The caller calls listen(): _connectAmqp, _createChannel, then one
\* _bindHandler per handler.  failAt is the yield that rejects, if any;
\* the rejection ends _listen there.
_listen(failAt) ==
  LET r == _connectAmqp(failAt # "connect")
      c == Len(connections) + 1
      ch == Len(channels) + 1
      created == failAt \notin {"connect", "createChannel"}
  IN /\ ~exited
     /\ lastCall.n < MaxCalls
     /\ connectCalls' = Append(connectCalls, [by |-> "listen", ok |-> r.connected])
     /\ errorLogs' = errorLogs + r.errors
                       + (IF OnChannel(failAt) THEN _subscribeToChannelEvents("error").errors ELSE 0)
     /\ lastCall' = [op |-> "listen",
                     n |-> lastCall.n + 1,
                     forceExit |-> FALSE,
                     result |-> IF failAt = "none" THEN "ok" ELSE "error",
                     chanClose |-> "none",
                     connClose |-> "none",
                     exitScheduled |-> FALSE]
     /\ IF r.throws
        THEN UNCHANGED <<workerConnection, connections>>
        ELSE /\ connections' = Append(connections, "open")
             /\ workerConnection' = c
     /\ channels' =
          IF created
          THEN Append(channels, [consumers |-> IF failAt = "none" THEN MaxHandlers ELSE 0,
                                 st |-> IF OnChannel(failAt) THEN "closed" ELSE "open",
                                 conn |-> c])
          ELSE channels
     /\ workerChannel' = IF ChannelAssigned(failAt) THEN ch ELSE workerChannel
     /\ UNCHANGED <<listenCalled, closeIssued, exitTimers, exited, lastSignal>>
     /\ UNCHANGED <<pipelineVars, waitVars, routingVars, creationVars, sessionVars>>

\* The caller calls close(forceExit).  A close() of a channel or of a
\* connection that is closed already is rejected by the library, and the
\* rejection leaves _close at that yield.
_close(forceExit) ==
  LET chanClose ==
        IF workerChannel = 0 THEN "skipped"
        ELSE IF channels[workerChannel].st = "open" THEN "ok" ELSE "failed"
      connClose ==
        IF chanClose = "failed" THEN "notReached"
        ELSE IF workerConnection = 0 THEN "skipped"
        ELSE IF connections[workerConnection] = "open" THEN "ok" ELSE "failed"
      completed == chanClose # "failed" /\ connClose # "failed"
      scheduled == completed /\ ExitScheduled(forceExit)
      onChannel ==
        IF chanClose = "skipped" THEN <<>>
        ELSE <<[target |-> "channel", id |-> workerChannel, wasOpen |-> chanClose = "ok",
                call |-> lastCall.n + 1]>>
      onConnection ==
        IF connClose \in {"skipped", "notReached"} THEN <<>>
        ELSE <<[target |-> "connection", id |-> workerConnection, wasOpen |-> connClose = "ok",
                call |-> lastCall.n + 1]>>
      chs1 ==
        IF chanClose = "ok" THEN [channels EXCEPT ![workerChannel].st = "closed"] ELSE channels
  IN /\ ~exited
     /\ lastCall.n < MaxCalls
     /\ closeIssued' = closeIssued \o onChannel \o onConnection
     /\ channels' = IF connClose = "ok" THEN ChannelsClosedWith(chs1, workerConnection) ELSE chs1
     /\ connections' =
          IF connClose = "ok" THEN [connections EXCEPT ![workerConnection] = "closed"]
          ELSE connections
     /\ exitTimers' = IF scheduled THEN exitTimers + 1 ELSE exitTimers
     /\ lastCall' = [op |-> "close",
                     n |-> lastCall.n + 1,
                     forceExit |-> forceExit,
                     result |-> IF completed THEN "ok" ELSE "error",
                     chanClose |-> chanClose,
                     connClose |-> connClose,
                     exitScheduled |-> scheduled]
     /\ UNCHANGED <<workerVars, exited, connectCalls, lastSignal>>
     /\ UNCHANGED <<pipelineVars, waitVars, routingVars, creationVars, sessionVars>>

\* The connection c emits 'close', 'error' (followed by its close) or
\* 'blocked'; the listeners of _subscribeToConnectionEvents run.  flag is
\* the truthiness of the argument 'close' is emitted with; a listener that
\* calls process.exit ends the process in this step.
ConnectionSignal(c, sig, flag) ==
  LET r == _subscribeToConnectionEvents(sig, flag)
  IN /\ ~exited
     /\ c \in DOMAIN connections
     /\ connections[c] = "open"
     /\ flag => sig = "close"
     /\ errorLogs' = errorLogs + r.errors
     /\ lastSignal' = [n |-> 1 - lastSignal.n, sig |-> sig, flag |-> flag, level |-> r.level]
     /\ exited' = r.exit
     /\ IF r.reconnect /\ Len(connectCalls) < MaxCalls
        THEN /\ connectCalls' = Append(connectCalls, [by |-> "reconnect", ok |-> TRUE])
             /\ connections' =
                  Append([connections EXCEPT ![c] = IF sig = "blocked" THEN @ ELSE "closed"], "open")
        ELSE /\ UNCHANGED connectCalls
             /\ connections' = [connections EXCEPT ![c] = IF sig = "blocked" THEN @ ELSE "closed"]
     /\ channels' = IF sig = "blocked" THEN channels ELSE ChannelsClosedWith(channels, c)
     /\ UNCHANGED <<workerConnection, workerChannel, listenCalled>>
     /\ UNCHANGED <<closeIssued, exitTimers, lastCall>>
     /\ UNCHANGED <<pipelineVars, waitVars, routingVars, creationVars, sessionVars>>

\* The broker closes channel ch, with 'close' or with 'error' and then
\* 'close'; the listeners of _subscribeToChannelEvents run.
ChannelSignal(ch, sig) ==
  /\ ~exited
  /\ ch \in DOMAIN channels
  /\ channels[ch].st = "open"
  /\ errorLogs' = errorLogs + _subscribeToChannelEvents(sig).errors
  /\ channels' = [channels EXCEPT ![ch].st = "closed"]
  /\ UNCHANGED <<workerConnection, workerChannel, listenCalled>>
  /\ UNCHANGED <<connections, closeIssued, exitTimers, exited, connectCalls, lastCall>>
  /\ UNCHANGED lastSignal
  /\ UNCHANGED <<pipelineVars, waitVars, routingVars, creationVars, sessionVars>>

\* processExitTimeout elapses on a timer set by close(): process.exit runs.
ExitTimerFire ==
  /\ ~exited
  /\ exitTimers > 0
  /\ exited' = TRUE
  /\ exitTimers' = exitTimers - 1
  /\ UNCHANGED <<workerVars, connections, channels, closeIssued, connectCalls, lastCall>>
  /\ UNCHANGED lastSignal
  /\ UNCHANGED <<pipelineVars, waitVars, routingVars, creationVars, sessionVars>>

NextLifecycle ==
  \/ \E failAt \in ConnectOutcomes : _listen(failAt)
  \/ \E forceExit \in BOOLEAN : _close(forceExit)
  \/ \E c \in 1..MaxCalls, sig \in {"close", "error", "blocked"}, flag \in BOOLEAN :
       ConnectionSignal(c, sig, flag)
  \/ \E ch \in 1..MaxCalls, sig \in {"close", "error"} : ChannelSignal(ch, sig)
  \/ ExitTimerFire

SpecLifecycle == Init /\ [][NextLifecycle]_vars

\* The lifecycle with a listen() that may fail at any of its yields.
NextListenFailure ==
  \/ \E failAt \in ListenFailures \ ConnectOutcomes : _listen(failAt)
  \/ NextLifecycle

SpecListenFailure == Init /\ [][NextListenFailure]_vars

\* The channel and the connection the worker holds, if any, are open.
HeldOpen ==
  /\ workerChannel = 0 \/ channels[workerChannel].st = "open"
  /\ workerConnection = 0 \/ connections[workerConnection] = "open"

\* The channel and the connection the worker holds, if any, are closed.
HeldClosed ==
  /\ workerChannel = 0 \/ channels[workerChannel].st = "closed"
  /\ workerConnection = 0 \/ connections[workerConnection] = "closed"

\* This step is a call of listen() or close() by the caller.
IsCall(op) == lastCall'.n # lastCall.n /\ lastCall'.op = op

C17_NoReconnect ==
  [][(connectCalls' # connectCalls \/ Len(connections') > Len(connections)) =>
       /\ IsCall("listen")
       /\ lastCall'.n = lastCall.n + 1
       /\ Len(connectCalls') = Len(connectCalls) + 1
       /\ connectCalls'[Len(connectCalls')].by = "listen"
       /\ Len(connections') <= Len(connections) + 1]_vars

C17_Witness ==
  /\ Len(connectCalls) = 3
  /\ ~connectCalls[3].ok
  /\ connections = <<"closed", "closed">>
  /\ closeIssued = <<>>
  /\ errorLogs = 2

C19_NeverClosesClosed ==
  \A k \in DOMAIN closeIssued : closeIssued[k].wasOpen

\* C20: when the close of the channel fails in close(), the connection is
\* closed all the same and, with forceExit, the exit timer is set.  The
\* code violates this: the rejection ends _close.
C20_ChannelCloseFailureTolerated ==
  (lastCall.op = "close" /\ lastCall.chanClose = "failed") =>
    /\ lastCall.connClose \in {"ok", "skipped"}
    /\ lastCall.forceExit => lastCall.exitScheduled

\* C40: whatever step of listen() fails (the connect, the creation of the
\* channel, the prefetch, the declaration of the exchange or of the queue,
\* a bind or a consume), the close(false) that follows it leaves the worker
\* with no open connection and no open channel.  The code violates this
\* when the failed step is a bind or a consume: workerChannel is assigned
\* and closed, the close of it is rejected, and the connection stays open.
C40_CloseAfterFailedListen ==
  [][(/\ lastCall.op = "listen"
      /\ lastCall.result = "error"
      /\ IsCall("close")
      /\ ~lastCall'.forceExit) =>
       /\ \A c \in DOMAIN connections' : connections'[c] = "closed"
       /\ \A ch \in DOMAIN channels' : channels'[ch].st = "closed"]_vars

\* Connections and channels the worker opened that are open.
OpenConnections == {c \in DOMAIN connections : connections[c] = "open"}

OpenChannels == {ch \in DOMAIN channels : channels[ch].st = "open"}

\* C27: the worker owns at most one open connection and at most one open
\* channel at any time, whatever listen() and close() calls were made, and
\* none after a close() that completed.  The code violates this: a second
\* listen() opens a second connection and channel over the first.
C27_OneConnectionOneChannel ==
  /\ Cardinality(OpenConnections) <= 1
  /\ Cardinality(OpenChannels) <= 1
  /\ (lastCall.op = "close" /\ lastCall.result = "ok") =>
       (OpenConnections = {} /\ OpenChannels = {})

\* This step is a signal of a connection.
IsSignal(sig) == lastSignal'.n # lastSignal.n /\ lastSignal'.sig = sig

\* C29: a signal of a connection changes nothing the worker holds (its
\* connection, its channel, the calls it made, its exit timers); 'blocked'
\* and 'error' write one log entry and do not end the process; 'close'
\* writes an info entry and takes the forced-exit path if and only if it
\* carries the forced-exit flag.  The code violates the last part: its
\* 'close' listener only logs the flag.
C29_SignalEffects ==
  [][\A sig \in {"close", "error", "blocked"} :
       IsSignal(sig) =>
         /\ workerConnection' = workerConnection
         /\ workerChannel' = workerChannel
         /\ closeIssued' = closeIssued
         /\ connectCalls' = connectCalls
         /\ lastCall' = lastCall
         /\ lastSignal'.level \in {"info", "warn", "error"}
         /\ sig = "error" => errorLogs' = errorLogs + 1
         /\ sig \in {"blocked", "error"} => (exited' = exited /\ exitTimers' = exitTimers)
         /\ sig = "close" =>
              /\ lastSignal'.level = "info"
              /\ (exited' \/ exitTimers' > exitTimers) <=> lastSignal'.flag]_vars

(* ------------------------------- session ------------------------------ *)

\* A worker with one handler whose queue holds Msgs, each a JSON object
\* that passes validation, while the caller calls listen() and
\* close(false); every listen() succeeds and the process does not exit.

\* A window that admits a delivery only when none is unacknowledged.
WindowOpenSerial(ch) ==
  \A m \in Msgs : ~(inbox[m].st = "unacked" /\ inbox[m].on = ch)

\* The broker delivers on channel ch while the deliveries of ch that are
\* not acknowledged are fewer than the count of channel.prefetch.
WindowOpen(ch) ==
  Cardinality({m \in Msgs : inbox[m].st = "unacked" /\ inbox[m].on = ch}) < channelPrefetch

\* The delivery tag the broker gives the next delivery on channel ch.
NextTag(ch) == 1 + Cardinality({k \in DOMAIN invocations : invocations[k].on = ch})

\* The invocations that have run to their channel call.
Finished == {k \in DOMAIN invocations : invocations[k].st = "done"}

\* The invocations of handle for message m that have failed.
FailedFor(m) == {j \in Finished : invocations[j].m = m /\ invocations[j].failed}

\* _consumeMessage, call k, after its yield: _handleMessage returns and
\* channel.ack or channel.nack is called on the channel _getChannel()
\* returned when the message arrived.  On a closed channel the call throws
\* and nothing reaches the broker.  On an open channel the broker applies
\* it to the delivery of that channel with that tag; when there is none,
\* it closes the channel with a channel exception.
Decide(box, k, rec, outcome) ==
  LET r == _handleMessage(outcome, rec.redelivered)
      op == AckOrNack(r.success)
      open == channels[rec.ackOn].st = "open"
      hit == {n \in Msgs : /\ box[n].st = "unacked"
                           /\ box[n].on = rec.ackOn
                           /\ box[n].tag = rec.tag}
      effect ==
        IF ~open THEN "refused"
        ELSE IF hit = {} THEN "unknownTag"
        ELSE IF op = "ack" THEN "acked" ELSE "requeued"
      done == [rec EXCEPT !.st = "done", !.failed = outcome = "err", !.op = op,
                          !.effect = effect, !.hit = hit,
                          !.failures = Cardinality(FailedFor(rec.m))
                                         + (IF outcome = "err" THEN 1 ELSE 0)]
  IN /\ invocations' =
          [j \in 1..(IF k > Len(invocations) THEN k ELSE Len(invocations)) |->
             IF j = k THEN done ELSE invocations[j]]
     /\ inbox' =
          [n \in Msgs |->
             IF open /\ n \in hit
             THEN IF op = "ack"
                  THEN [redelivered |-> box[n].redelivered, st |-> "gone", tag |-> 0, on |-> 0]
                  ELSE [redelivered |-> TRUE, st |-> "ready", tag |-> 0, on |-> 0]
             ELSE box[n]]
     /\ channels' =
          IF effect = "unknownTag" THEN [channels EXCEPT ![rec.ackOn].st = "closed"]
          ELSE channels
     /\ errorLogs' =
          IF effect = "unknownTag" THEN errorLogs + _subscribeToChannelEvents("error").errors
          ELSE errorLogs

\* The broker delivers message m to the consumer of channel ch and
\* _consumeMessage runs up to its first pending yield; hb is what handle
\* does on this call.
Arrive(m, ch, hb) ==
  LET rec == [redelivered |-> inbox[m].redelivered,
              m |-> m,
              op |-> "none",
              st |-> "pending",
              tag |-> NextTag(ch),
              on |-> ch,
              failed |-> FALSE,
              ackOn |-> _getChannel,
              hit |-> {},
              effect |-> "none",
              failures |-> 0]
      box == [inbox EXCEPT ![m] = [redelivered |-> @.redelivered,
                                   st |-> "unacked",
                                   tag |-> rec.tag,
                                   on |-> ch]]
  IN /\ ~exited
     /\ ch \in DOMAIN channels
     /\ channels[ch].st = "open"
     /\ channels[ch].consumers > 0
     /\ inbox[m].st = "ready"
     /\ WindowOpen(ch)
     /\ Len(invocations) < MaxInvocations
     /\ IF hb = "throws"
        THEN Decide(box, Len(invocations) + 1, rec, "err")
        ELSE /\ invocations' = Append(invocations, rec)
             /\ inbox' = box
             /\ UNCHANGED <<channels, errorLogs>>
     /\ UNCHANGED <<workerConnection, workerChannel, listenCalled>>
     /\ UNCHANGED <<connections, closeIssued, exitTimers, exited, connectCalls, lastCall,
                    lastSignal>>
     /\ UNCHANGED <<pipelineVars, waitVars, routingVars, creationVars>>

\* The guarded promise of invocation k settles: the yieldable resolves or
\* rejects, or the timer fires first.
Complete(k, ev) ==
  /\ ~exited
  /\ k \in DOMAIN invocations
  /\ invocations[k].st = "pending"
  /\ Decide(inbox, k, invocations[k], IF ev = "resolve" THEN "ok" ELSE "err")
  /\ UNCHANGED <<workerConnection, workerChannel, listenCalled>>
  /\ UNCHANGED <<connections, closeIssued, exitTimers, exited, connectCalls, lastCall,
                 lastSignal>>
  /\ UNCHANGED <<pipelineVars, waitVars, routingVars, creationVars>>

\* The broker puts a delivery that was not acknowledged when its channel
\* closed back in the queue, flagged redelivered.
Requeue(m) ==
  /\ inbox[m].st = "unacked"
  /\ channels[inbox[m].on].st = "closed"
  /\ inbox' = [inbox EXCEPT ![m] = [redelivered |-> TRUE, st |-> "ready", tag |-> 0, on |-> 0]]
  /\ UNCHANGED invocations
  /\ UNCHANGED <<workerVars, pipelineVars, waitVars, routingVars, lifecycleVars, creationVars>>

\* The caller calls listen() on the worker, a first time or again.
ListenAgain ==
  /\ Len(channels) < MaxListens
  /\ _listen("none")

NextSession ==
  \/ ListenAgain
  \/ _close(FALSE)
  \/ \E m \in Msgs, ch \in 1..MaxCalls, hb \in HandlerBehaviours : Arrive(m, ch, hb)
  \/ \E k \in 1..MaxInvocations, ev \in {"resolve", "reject", "timeout"} : Complete(k, ev)
  \/ \E m \in Msgs : Requeue(m)

SpecSession == Init /\ [][NextSession]_vars

\* C32: a message is discarded because its handler failed only after the
\* handler failed on two invocations for it, whatever set the redelivered
\* flag of its delivery.  The code violates this: it takes the flag for a
\* first failure, and the broker also sets it when the channel of an
\* unacknowledged delivery closes.
C32_DiscardAfterTwoFailures ==
  \A k \in Finished :
    (/\ invocations[k].failed
     /\ invocations[k].op = "ack"
     /\ invocations[k].effect = "acked"
     /\ invocations[k].m \in invocations[k].hit) =>
      invocations[k].failures >= 2

\* C33: while the handler of one delivery is pending, another message can
\* be delivered as long as the unacknowledged deliveries of the channel are
\* fewer than the prefetch count, and any pending invocation can complete
\* and be acked, whatever its place in the order of arrival.
C33_ConcurrentWithinPrefetch ==
  \A k \in DOMAIN invocations :
    (invocations[k].st = "pending" /\ ~exited) =>
      /\ \A m \in Msgs :
           LET ch == invocations[k].on
               unacked == {n \in Msgs : inbox[n].st = "unacked" /\ inbox[n].on = ch}
           IN (/\ inbox[m].st = "ready"
               /\ channels[ch].st = "open"
               /\ Cardinality(unacked) < channelPrefetch
               /\ Len(invocations) < MaxInvocations) =>
                ENABLED Arrive(m, ch, "pending")
      /\ \A j \in DOMAIN invocations :
           invocations[j].st = "pending" => ENABLED Complete(j, "resolve")

C33_Witness ==
  \E j, k \in DOMAIN invocations :
    /\ j < k
    /\ invocations[j].on = invocations[k].on
    /\ invocations[j].st = "pending"
    /\ invocations[k].st = "done"
    /\ invocations[k].effect = "acked"
    /\ ~invocations[k].failed
    /\ inbox[invocations[k].m].st = "gone"
    /\ inbox[invocations[j].m].st = "unacked"

\* C36: no ack and no nack is called on a channel that is closed.  The
\* code violates this: a handler that settles after close() has its
\* delivery acked or nacked on the channel close() closed.
C36_NoCallOnClosedChannel ==
  \A k \in Finished : invocations[k].effect # "refused"

\* C37: every ack and every nack is called on the channel the message was
\* delivered on, whatever listen() calls were made.  The code violates
\* this: the consumers of the channel of an earlier listen() call
\* acknowledge on the channel of the latest one.
C37_AckOnDeliveryChannel ==
  \A k \in Finished : invocations[k].ackOn = invocations[k].on

(* ------------------------------ creation ------------------------------ *)

\* What a caller may pass where a string or a function is required: nothing
\* (undefined), or a value of another type.
Invalid == {"missing", "mistyped"}

\* The required fields a caller may get wrong.
RequiredFields ==
  {"workerName", "amqpUrl", "exchangeName", "queueName", "handle", "routingKey"}

\* The queue names the workers of one process are created with.
QueueNames == {"q1", "q2"}

\* The validators the workers are created with, by what they do; "missing"
\* is a call that passes none.
CreationValidators == {"returnsUndefined", "throwsError", "missing"}

\* DEFAULT_TASK_TIMEOUT, in milliseconds, as written in the source.
DefaultTaskTimeout == "30000"

\* Joi.string().required() and Joi.func().required()
IsValid(v) == v \notin Invalid

\* The value a call passes for a field: wrong in the way `how` when the
\* field is the one the call gets wrong.
Field(name, bad, how, v) == IF bad = name THEN how ELSE v

\* The config object of a call.
ConfigArgument(bad, how, q) ==
  [queueName |-> Field("queueName", bad, how, q),
   workerName |-> Field("workerName", bad, how, "worker"),
   amqpUrl |-> Field("amqpUrl", bad, how, "amqp://host"),
   exchangeName |-> Field("exchangeName", bad, how, "exchange")]

\* The arguments of a createWorkers(handlers, config, options) call with
\* one HandlerSpec.
ListArguments(bad, how, q, vb) ==
  [handlers |-> <<[validate |-> vb,
                   routingKey |-> Field("routingKey", bad, how, "key"),
                   handle |-> Field("handle", bad, how, "handle")]>>,
   config |-> ConfigArgument(bad, how, q),
   options |-> [taskTimeout |-> "missing"]]

\* The arguments of a legacy createWorker(handler, config, options) call.
LegacyArguments(bad, how, q, vb) ==
  [handler |-> Field("handle", bad, how, "handle"),
   config |-> [routingKey |-> Field("routingKey", bad, how, "key"),
               queueName |-> Field("queueName", bad, how, q),
               workerName |-> Field("workerName", bad, how, "worker"),
               amqpUrl |-> Field("amqpUrl", bad, how, "amqp://host"),
               exchangeName |-> Field("exchangeName", bad, how, "exchange")],
   options |-> [validator |-> vb, taskTimeout |-> "missing"]]

\* A configurationSchema whose fields are not required().
applyConfigurationOptional(obj) ==
  [value |-> obj,
   throws |-> \/ \E f \in {"workerName", "amqpUrl", "exchangeName", "queueName"} :
                   obj[f] = "mistyped"
              \/ \E i \in DOMAIN obj.handlers :
                   \/ obj.handlers[i].handle = "mistyped"
                   \/ obj.handlers[i].validate = "mistyped"
                   \/ obj.handlers[i].routingKey = "mistyped"]

\* applyConfiguration: Joi.attempt(obj, configurationSchema) throws unless
\* the four names are strings and every handler has two functions and a
\* string; it returns the object.
applyConfiguration(obj) ==
  [value |-> obj,
   throws |-> \/ \E f \in {"workerName", "amqpUrl", "exchangeName", "queueName"} :
                   ~IsValid(obj[f])
              \/ \E i \in DOMAIN obj.handlers :
                   \/ ~IsValid(obj.handlers[i].handle)
                   \/ ~IsValid(obj.handlers[i].validate)
                   \/ ~IsValid(obj.handlers[i].routingKey)]

\* applyOptions: Joi.attempt(obj, optionsSchema) throws on a taskTimeout that
\* is not a positive number and fills in the default.
applyOptions(obj) ==
  [value |-> [taskTimeout |->
                IF obj.taskTimeout = "missing" THEN DefaultTaskTimeout ELSE obj.taskTimeout],
   throws |-> obj.taskTimeout = "mistyped"]

\* applyLegacyHandler: Joi.attempt(handler, handlerSchema)
applyLegacyHandler(handler) == [value |-> handler, throws |-> ~IsValid(handler)]

\* applyLegacyConfig: Joi.attempt(obj, legacyConfigurationSchema)
applyLegacyConfig(obj) ==
  [value |-> obj,
   throws |-> \E f \in {"workerName", "amqpUrl", "exchangeName", "queueName", "routingKey"} :
                ~IsValid(obj[f])]

\* applyLegacyOptions: Joi.attempt(obj, legacyOptionsSchema); the validator
\* defaults to _.noop.
applyLegacyOptions(obj) ==
  [value |-> [validator |-> IF obj.validator = "missing" THEN "returnsUndefined"
                            ELSE obj.validator,
              taskTimeout |->
                IF obj.taskTimeout = "missing" THEN DefaultTaskTimeout ELSE obj.taskTimeout],
   throws |-> obj.validator = "mistyped" \/ obj.taskTimeout = "mistyped"]

\* A formatLegacyParameters that leaves the validator of the options out of
\* the handler it builds.
formatLegacyParametersNoValidator(handler, config, options) ==
  [handlers |-> <<[validate |-> "returnsUndefined",
                   routingKey |-> config.routingKey,
                   handle |-> handler]>>,
   config |-> [queueName |-> config.queueName,
               workerName |-> config.workerName,
               amqpUrl |-> config.amqpUrl,
               exchangeName |-> config.exchangeName],
   options |-> [taskTimeout |-> options.taskTimeout]]

\* formatLegacyParameters: one handler of the legacy handler, the validator
\* of the options and the routing key of the config; the config without
\* its routingKey; the options without their validator.
formatLegacyParameters(handler, config, options) ==
  [handlers |-> <<[validate |-> options.validator,
                   routingKey |-> config.routingKey,
                   handle |-> handler]>>,
   config |-> [queueName |-> config.queueName,
               workerName |-> config.workerName,
               amqpUrl |-> config.amqpUrl,
               exchangeName |-> config.exchangeName],
   options |-> [taskTimeout |-> options.taskTimeout]]

\* createWorkers up to its return: it throws when applyConfiguration or
\* applyOptions throws, and otherwise holds `configuration` in its closure.
createWorkers(handlers, config, options) ==
  LET workerConfig ==
        applyConfiguration([queueName |-> config.queueName,
                            workerName |-> config.workerName,
                            amqpUrl |-> config.amqpUrl,
                            exchangeName |-> config.exchangeName,
                            handlers |-> handlers])
      workerOptions == applyOptions(options)
  IN IF workerConfig.throws \/ workerOptions.throws
     THEN [throws |-> TRUE, configuration |-> "none"]
     ELSE [throws |-> FALSE,
           configuration |->
             [queueName |-> workerConfig.value.queueName,
              workerName |-> workerConfig.value.workerName,
              amqpUrl |-> workerConfig.value.amqpUrl,
              exchangeName |-> workerConfig.value.exchangeName,
              handlers |-> workerConfig.value.handlers,
              taskTimeout |-> workerOptions.value.taskTimeout]]

\* The legacy createWorker: the three legacy checks, formatLegacyParameters,
\* then createWorkers.
createWorker(handler, config, options) ==
  LET legacyHandler == applyLegacyHandler(handler)
      legacyConfig == applyLegacyConfig(config)
      legacyOptions == applyLegacyOptions(options)
      formatted ==
        formatLegacyParameters(legacyHandler.value, legacyConfig.value, legacyOptions.value)
  IN IF legacyHandler.throws \/ legacyConfig.throws \/ legacyOptions.throws
     THEN [throws |-> TRUE, configuration |-> "none"]
     ELSE createWorkers(formatted.handlers, formatted.config, formatted.options)

\* A `configuration` held in a variable of the module (lines 326-359): the
\* one the last creation assigned, for every worker.
ConfigurationModuleLevel(ws, k) == ws[Len(ws)].configuration

\* The configuration the functions of worker k read: the constant of its
\* own closure.
Configuration(ws, k) == ws[k].configuration

\* What the consumer closure of a HandlerSpec does with a delivery: the
\* validator and the handler it calls, the handler's argument, and the channel
\* call after a handler call that ended as `outcome`.
ConsumerOutcome(handler, p, outcome, redelivered) ==
  LET content == _parseMessage(p).value
      validated == _validateMessage(handler.validate, content)
  IN IF ~Truthy(content)
     THEN [validate |-> "notCalled", op |-> "ack", arg |-> "none", handle |-> "notInvoked"]
     ELSE IF isError(validated.value)
     THEN [validate |-> handler.validate,
           op |-> "ack",
           arg |-> "none",
           handle |-> "notInvoked"]
     ELSE [validate |-> handler.validate,
           op |-> AckOrNack(_handleMessage(outcome, redelivered).success),
           arg |-> HandlerArgument(validated.value, content),
           handle |-> handler.handle]

\* One createWorker(s) call, whose result is r; given holds the queue name
\* and the validator the caller passed.  A call that throws returns no
\* worker; no call connects or does other I/O.
Create(form, bad, how, given, r) ==
  /\ Len(workers) < MaxWorkers
  /\ lastCreation' = [threw |-> r.throws,
                      n |-> 1 - lastCreation.n,
                      form |-> form,
                      bad |-> bad,
                      how |-> IF bad = "none" THEN "none" ELSE how]
  /\ workers' =
       IF r.throws THEN workers
       ELSE Append(workers, [form |-> form,
                             configuration |-> r.configuration,
                             given |-> given,
                             consumes |-> "none"])
  /\ UNCHANGED listenCount
  /\ UNCHANGED <<workerVars, pipelineVars, waitVars, routingVars, lifecycleVars, sessionVars>>

\* The caller calls createWorkers with one HandlerSpec.
CallCreateWorkers(bad, how, q, vb) ==
  LET a == ListArguments(bad, how, q, vb)
  IN Create("list", bad, how, [validator |-> vb, queueName |-> q],
            createWorkers(a.handlers, a.config, a.options))

\* The caller calls the legacy createWorker.
CallCreateWorker(bad, how, q, vb) ==
  LET a == LegacyArguments(bad, how, q, vb)
  IN Create("legacy", bad, how, [validator |-> vb, queueName |-> q],
            createWorker(a.handler, a.config, a.options))

\* The caller calls listen() on worker k: _listen connects and consumes the
\* queue its configuration names.
CallListen(k) ==
  /\ k \in DOMAIN workers
  /\ workers[k].consumes = "none"
  /\ workers' = [workers EXCEPT ![k].consumes = Configuration(workers, k).queueName]
  /\ listenCount' = listenCount + 1
  /\ UNCHANGED lastCreation
  /\ UNCHANGED <<workerVars, pipelineVars, waitVars, routingVars, lifecycleVars, sessionVars>>

NextCreate ==
  \/ \E bad \in RequiredFields \cup {"none"}, how \in Invalid, q \in QueueNames,
        vb \in CreationValidators : CallCreateWorkers(bad, how, q, vb)
  \/ \E bad \in RequiredFields \cup {"none"}, how \in Invalid, q \in QueueNames,
        vb \in CreationValidators : CallCreateWorker(bad, how, q, vb)
  \/ \E k \in 1..MaxWorkers : CallListen(k)

SpecCreate == Init /\ [][NextCreate]_vars

\* This step is a createWorker(s) call.
IsCreation == lastCreation'.n # lastCreation.n

\* C22: a createWorker or createWorkers call with a required field
\* (workerName, amqpUrl, exchangeName, queueName, a handler's handle or
\* routingKey) missing or of the wrong type throws, returns no worker, and
\* has connected to nothing.
C22_InvalidCreationFails ==
  [][(IsCreation /\ lastCreation'.bad \in RequiredFields) =>
       /\ lastCreation'.threw
       /\ workers' = workers
       /\ listenCount' = listenCount
       /\ connectCalls' = connectCalls
       /\ connections' = connections]_vars

C22_Witness ==
  /\ lastCreation.threw
  /\ lastCreation.form = "legacy"
  /\ lastCreation.bad = "routingKey"
  /\ lastCreation.how = "mistyped"
  /\ Len(workers) = 1
  /\ workers[1].form = "list"

\* Worker k was created by createWorkers with the handler, the validator,
\* the routing key and the other values that the legacy call of worker j
\* passed: [{handle: handler, validate: validator, routingKey}], the config
\* without routingKey and the options without validator.
ListFormOf(j, k) ==
  LET a == LegacyArguments("none", "none", workers[j].given.queueName,
                           workers[j].given.validator)
      b == ListArguments("none", "none", workers[k].given.queueName,
                         workers[k].given.validator)
  IN /\ workers[j].form = "legacy"
     /\ workers[k].form = "list"
     /\ b.handlers = <<[validate |-> a.options.validator,
                        routingKey |-> a.config.routingKey,
                        handle |-> a.handler]>>
     /\ b.config = [queueName |-> a.config.queueName,
                    workerName |-> a.config.workerName,
                    amqpUrl |-> a.config.amqpUrl,
                    exchangeName |-> a.config.exchangeName]
     /\ b.options = [taskTimeout |-> a.options.taskTimeout]

\* Workers j and k call the same validator and handler with the same
\* argument and make the same channel call on every delivery.
SameBehaviour(j, k) ==
  /\ Configuration(workers, j) = Configuration(workers, k)
  /\ \A p \in Payloads, outcome \in {"ok", "err"}, redelivered \in BOOLEAN :
       ConsumerOutcome(Configuration(workers, j).handlers[1], p, outcome, redelivered)
         = ConsumerOutcome(Configuration(workers, k).handlers[1], p, outcome, redelivered)

\* C23: a worker created by createWorker(handler, config with routingKey,
\* options with validator) and a worker created by createWorkers([{handle:
\* handler, validate: validator, routingKey}], config without routingKey,
\* options without validator) have the same configuration, and on every
\* delivery call the same validator and handler and make the same ack/nack.
C23_LegacyFormEquivalent ==
  \A j \in DOMAIN workers, k \in DOMAIN workers :
    (ListFormOf(j, k) /\ workers[j].given.validator # "missing") => SameBehaviour(j, k)

C23_Witness ==
  \E j \in DOMAIN workers, k \in DOMAIN workers :
    /\ ListFormOf(j, k)
    /\ workers[j].given.validator = "throwsError"
    /\ workers[j].consumes # "none" /\ workers[k].consumes # "none"

\* C25: creating or starting a worker changes nothing of the configuration
\* another worker's functions read (handlers, validators, queue, timeout):
\* it stays the one the worker was created with.
C25_WorkersDoNotInterfere ==
  [][\A k \in DOMAIN workers :
       /\ k \in DOMAIN workers'
       /\ Configuration(workers', k) = Configuration(workers, k)
       /\ workers'[k].given = workers[k].given
       /\ Configuration(workers', k).queueName = workers[k].given.queueName
       /\ Configuration(workers', k).handlers[1].validate
            = (IF workers[k].given.validator = "missing" THEN "returnsUndefined"
               ELSE workers[k].given.validator)
       /\ workers'[k].consumes # "none" =>
            workers'[k].consumes = workers[k].given.queueName]_vars

C25_Witness ==
  /\ Len(workers) = 2
  /\ workers[1].configuration.queueName # workers[2].configuration.queueName
  /\ workers[1].configuration.handlers[1].validate
       # workers[2].configuration.handlers[1].validate
  /\ workers[1].consumes = workers[1].given.queueName
  /\ workers[2].consumes = workers[2].given.queueName
  /\ listenCount = 2

=============================================================================
